---- MODULE Spec2Model ----
(***************************************************************************)
(* The live-position pipeline of the ADS-B tracker: the adsb.fi SDK        *)
(* (rate limit, request/retry, trail store) and the AdsbApp component      *)
(* (poll timer, fetchAircraft, interpolation map, animation loop).         *)
(*                                                                         *)
(* Time is the value of Date.now() in milliseconds.  Numbers that are      *)
(* fractions in the program (interpolationProgress, rendered coordinates)  *)
(* are exact fractions <<numerator, denominator>> in lowest terms.         *)
(* A coordinate value 0 stands for a falsy lat/lon (undefined or 0): the   *)
(* program tests positions with `ac.lat && ac.lon`.                        *)
(***************************************************************************)
EXTENDS Integers, Sequences, FiniteSets, TLC

VARIABLES
    now,                  \* Date.now()
    lastRequestTime,      \* SDK module state: time of the last rate-limit stamp
    aircraftTrails,       \* SDK module state: Map hex -> reference of a trail object
    heap,                 \* the trail objects: reference -> AircraftTrail
    httpRequests,         \* number of fetch() calls issued so far
    poll,                 \* the fetchAircraft invocations in flight, per slot
    orphaned,             \* slots of the invocations an unmounted instance left in flight
    pollsStarted,         \* number of fetchAircraft invocations so far
    interval,             \* the setInterval poll timer of the component
    aircraft,             \* component state: aircraft
    interpolatedAircraft, \* component state: Map hex -> InterpolatedAircraft
    trailsState,          \* component state: aircraftTrails (Map hex -> reference)
    stats,                \* component state: stats
    loading,              \* component state: loading
    error,                \* component state: error
    origin,               \* history: the branch of the poll updater that wrote each entry
    trailEvents,          \* history: what the last updateAircraftTrails truncated and evicted
    outcome,              \* history: how the last finished fetchAircraft ended
    query,                \* location.radius of the mounted instance, the dist of its calls
    mapCall,              \* a call looked at on its own (latLonToPixel, a frame of
                          \* animate, ...): its arguments and its result
    config,               \* config.display of config.json
    currentAppIndex,      \* App state: currentAppIndex
    currentTheme,         \* themeManager.currentTheme
    localStorage,         \* localStorage.getItem('crt-display-theme')
    lastEvent             \* history: the last key press, timer firing or theme call

\* the variables of the tracker: SDK, component and their history
trackerVars == <<now, lastRequestTime, aircraftTrails, heap, httpRequests, poll, orphaned,
                 pollsStarted, interval, aircraft, interpolatedAircraft, trailsState,
                 stats, loading, error, origin, trailEvents, outcome, query>>

\* the variables of the app shell and of the theme manager
shellVars == <<config, currentAppIndex, currentTheme, localStorage, lastEvent>>

vars == <<trackerVars, mapCall, shellVars>>

----------------------------------------------------------------------------
(* Bounds of the model *)

Epoch == 1000000        \* Date.now() when the page is loaded
TimeStep == 750         \* granularity of the clock
LongIdle == 300000      \* one long pause of the event loop
MaxSteps == 3           \* TimeSteps the clock may advance before and after the long pause
MaxPolls == 3           \* fetchAircraft invocations in a behaviour
MaxInFlight == 2        \* fetchAircraft invocations that overlap
TRAIL_LENGTH == 2       \* ADSB_MAP_CONFIG.TRAIL_LENGTH (50 in the source)
maxAircraft == 1        \* prop maxAircraft (ADSB_CONFIG.MAX_AIRCRAFT, 50 in the source)
interpolationDuration == 1000  \* prop interpolationDuration (UI_CONFIG.INTERPOLATION_DURATION)

(* Program constants *)

REFRESH_INTERVAL == 1500
RATE_LIMIT_DELAY == 1000
retryAttempts == 3
MAX_DISTANCE_NM == 250
TrailCutoff == 300000   \* 5 * 60 * 1000
FadeWindow == 1000

Null == "null"

Slots == 1..MaxInFlight

----------------------------------------------------------------------------
(* Arithmetic *)

Min(a, b) == IF a < b THEN a ELSE b
Max(a, b) == IF a > b THEN a ELSE b
Abs(a) == IF a < 0 THEN -a ELSE a

RECURSIVE GCD(_, _)
GCD(a, b) == IF b = 0 THEN a ELSE GCD(b, a % b)

\* the fraction n/d (d > 0) in lowest terms
Frac(n, d) == LET g == GCD(Abs(n), d) IN <<n \div g, d \div g>>

FracZero == <<0, 1>>
FracOne == <<1, 1>>

RECURSIVE Pow2(_)
Pow2(k) == IF k = 0 THEN 1 ELSE 2 * Pow2(k - 1)

----------------------------------------------------------------------------
(* Aircraft and the snapshots the API may return *)

Hexes == {"AE01", "4b1a", "43c1"}

\* the characters of a hex code of the model
CharsOf(hex) ==
    CASE hex = "AE01" -> <<"A", "E", "0", "1">>
      [] hex = "4b1a" -> <<"4", "b", "1", "a">>
      [] hex = "43c1" -> <<"4", "3", "c", "1">>

\* 'AE', 'ADF', '43C', '3C6'
MILITARY_HEX_PREFIXES ==
    {<<"A", "E">>, <<"A", "D", "F">>, <<"4", "3", "C">>, <<"3", "C", "6">>}

\* String.prototype.toUpperCase, on the characters hex codes are made of
ToUpperCase(chars) ==
    [i \in 1..Len(chars) |->
        CASE chars[i] = "a" -> "A" [] chars[i] = "b" -> "B" [] chars[i] = "c" -> "C"
          [] chars[i] = "d" -> "D" [] chars[i] = "e" -> "E" [] chars[i] = "f" -> "F"
          [] OTHER -> chars[i]]

\* String.prototype.startsWith
StartsWith(chars, prefix) ==
    Len(chars) >= Len(prefix) /\ SubSeq(chars, 1, Len(prefix)) = prefix

\* MILITARY_HEX_PREFIXES.some((prefix) => hex.toUpperCase().startsWith(prefix))
StartsWithMilitaryPrefix(hex) ==
    \E prefix \in MILITARY_HEX_PREFIXES : StartsWith(ToUpperCase(CharsOf(hex)), prefix)

\* alt_baro is <<feet>> for a number and << >> for 'ground' or absent
Ac(hex, lat, lon) ==
    [hex |-> hex, lat |-> lat, lon |-> lon,
     alt_baro |-> IF hex = "AE01" THEN <<1200>> ELSE << >>,
     emergency |-> IF hex = "AE01" THEN "none" ELSE "general",
     category |-> IF hex = "AE01" THEN "A7" ELSE "A3"]

\* the lists response.aircraft may hold: no hex twice; 0 is a falsy coordinate
Snapshots ==
    {<< >>,
     <<Ac("AE01", 1, 2)>>,
     <<Ac("AE01", 2, 1)>>,
     <<Ac("AE01", 2, 0)>>,
     <<Ac("4b1a", 1, 2), Ac("AE01", 2, 1)>>,
     <<Ac("AE01", 1, 2), Ac("4b1a", 0, 0)>>,
     <<Ac("4b1a", 1, 2), Ac("AE01", 2, 1), Ac("43c1", 2, 2)>>}

HexesOf(list) == {list[i].hex : i \in 1..Len(list)}

\* `ac.lat && ac.lon`
HasPosition(ac) == ac.lat # 0 /\ ac.lon # 0

----------------------------------------------------------------------------
(* SDK: the trail store *)

NoTrailEvents == [active |-> {}, recorded |-> {}, truncated |-> {}, evicted |-> {}]

NewRef(h) == CHOOSE r \in 1..(Cardinality(DOMAIN h) + 1) : r \notin DOMAIN h

\* positions.slice(0, n): keeps the oldest positions
SliceLast_KeepOldest(s, n) == IF Len(s) <= n THEN s ELSE SubSeq(s, 1, n)

\* positions.slice(-n)
SliceLast(s, n) == IF Len(s) <= n THEN s ELSE SubSeq(s, Len(s) - n + 1, Len(s))

\* positions.unshift(position): the new position in front of the older ones
Push_Front(positions, position) == <<position>> \o positions

\* trail.positions.push(position)
Push(positions, position) == Append(positions, position)

\* a new trail without a position
FirstPositions_None(position) == << >>

\* positions: [position] of a new trail
FirstPositions(position) == <<position>>

\* the forEach of updateAircraftTrails from element i on;
\* st = [trails, heap, recorded, truncated]
RECURSIVE RecordPositions(_, _, _, _)
RecordPositions(list, i, st, t) ==
    IF i > Len(list) THEN st
    ELSE LET ac == list[i] IN
         IF ~HasPosition(ac) THEN RecordPositions(list, i + 1, st, t)
         ELSE LET position == [lat |-> ac.lat, lon |-> ac.lon, timestamp |-> t] IN
              IF ac.hex \notin DOMAIN st.trails
              THEN LET r == NewRef(st.heap) IN
                   RecordPositions(list, i + 1,
                       [st EXCEPT !.trails = (ac.hex :> r) @@ st.trails,
                                  !.heap = (r :> [hex |-> ac.hex,
                                                  positions |-> FirstPositions(position),
                                                  maxLength |-> TRAIL_LENGTH]) @@ st.heap,
                                  !.recorded = @ \cup {ac.hex}],
                       t)
              ELSE LET r == st.trails[ac.hex]
                       trail == st.heap[r]
                       pushed == Push(trail.positions, position)
                       over == Len(pushed) > trail.maxLength
                       kept == IF over THEN SliceLast(pushed, trail.maxLength) ELSE pushed
                   IN RecordPositions(list, i + 1,
                       [st EXCEPT !.heap[r].positions = kept,
                                  !.recorded = @ \cup {ac.hex},
                                  !.truncated = IF over THEN @ \cup {ac.hex} ELSE @],
                       t)

\* the cleanup loop without the activeHexCodes test
StaleHexes_IgnoreActive(trails, h, list, t) ==
    LET cutoffTime == t - TrailCutoff
    IN {hex \in DOMAIN trails :
          LET positions == h[trails[hex]].positions
              lastPosition == positions[Len(positions)]
          IN lastPosition.timestamp < cutoffTime}

\* the hex codes the cleanup loop of updateAircraftTrails deletes
StaleHexes(trails, h, list, t) ==
    LET cutoffTime == t - TrailCutoff
        activeHexCodes == HexesOf(list)
    IN {hex \in DOMAIN trails :
          LET positions == h[trails[hex]].positions
              lastPosition == positions[Len(positions)]
          IN hex \notin activeHexCodes /\ lastPosition.timestamp < cutoffTime}

Restrict(f, S) == [x \in S |-> f[x]]

\* objects no Map refers to any more are garbage
Collect(h, trails, snapshot) ==
    Restrict(h, {r \in DOMAIN h :
                   (\E x \in DOMAIN trails : trails[x] = r)
                   \/ (\E x \in DOMAIN snapshot : snapshot[x] = r)})

\* updateAircraftTrails(aircraft) at Date.now() = t
updateAircraftTrails(list, t) ==
    LET recorded == RecordPositions(list, 1,
                        [trails |-> aircraftTrails, heap |-> heap,
                         recorded |-> {}, truncated |-> {}], t)
        deleted == StaleHexes(recorded.trails, recorded.heap, list, t)
    IN [trails |-> Restrict(recorded.trails, DOMAIN recorded.trails \ deleted),
        heap |-> recorded.heap,
        events |-> [active |-> HexesOf(list), recorded |-> recorded.recorded,
                    truncated |-> recorded.truncated, evicted |-> deleted]]

\* updateAircraftTrails(aircraft) at Date.now() = t for a list whose entries are
\* those of prefix followed by a null: the forEach throws a TypeError at the
\* null, after the entries before it were recorded and before the cleanup loop
updateAircraftTrailsThrows(prefix, t) ==
    LET recorded == RecordPositions(prefix, 1,
                        [trails |-> aircraftTrails, heap |-> heap,
                         recorded |-> {}, truncated |-> {}], t)
    IN [trails |-> recorded.trails,
        heap |-> recorded.heap,
        events |-> [active |-> {}, recorded |-> recorded.recorded,
                    truncated |-> recorded.truncated, evicted |-> {}]]

\* the trail of a hex as a reader of a Map sees it
TrailOf(map, hex) == heap[map[hex]]

----------------------------------------------------------------------------
(* Component: the updater of fetchAircraft and the animation loop *)

\* props of the component at their defaults
minAltitude == [set |-> FALSE, value |-> 0]
maxAltitude == [set |-> FALSE, value |-> 0]

COMMERCIAL == {"A3", "A4", "A5"}
HELICOPTERS == <<"A7">>

\* the callback of data.filter, dropping an altitude equal to a bound
KeepAltitudeWith_Exclusive(min, max, ac) ==
    IF Len(ac.alt_baro) # 1 THEN TRUE
    ELSE IF min.set /\ ac.alt_baro[1] <= min.value THEN FALSE
    ELSE IF max.set /\ ac.alt_baro[1] >= max.value THEN FALSE
    ELSE TRUE

\* the callback of data.filter, for the props minAltitude = min, maxAltitude = max
KeepAltitudeWith(min, max, ac) ==
    IF Len(ac.alt_baro) # 1 THEN TRUE
    ELSE IF min.set /\ ac.alt_baro[1] < min.value THEN FALSE
    ELSE IF max.set /\ ac.alt_baro[1] > max.value THEN FALSE
    ELSE TRUE

\* filteredData of fetchAircraft, for the props minAltitude = min, maxAltitude = max
FilterDataWith(min, max, data) ==
    IF min.set \/ max.set
    THEN LET Keep(ac) == KeepAltitudeWith(min, max, ac) IN SelectSeq(data, Keep)
    ELSE data

\* the altitude filter of fetchAircraft
KeepAltitude(ac) == KeepAltitudeWith(minAltitude, maxAltitude, ac)

FilterData(data) == FilterDataWith(minAltitude, maxAltitude, data)

\* filteredData.slice(-maxAircraft): the last maxAircraft elements
LimitData_Last(data) ==
    SubSeq(FilterData(data), Max(1, Len(FilterData(data)) - maxAircraft + 1), Len(FilterData(data)))

\* filteredData.slice(0, maxAircraft)
LimitData(data) == SubSeq(FilterData(data), 1, Min(Len(FilterData(data)), maxAircraft))

Count(list, Test(_)) == Cardinality({i \in 1..Len(list) : Test(list[i])})

IsEmergency(ac) == ac.emergency # "" /\ ac.emergency # "none"
IsMilitary(ac) == StartsWithMilitaryPrefix(ac.hex)
IsCommercial(ac) == ac.category # "" /\ ac.category \in COMMERCIAL
IsHelicopter(ac) == ac.category = HELICOPTERS[1]

CalcStats(limitedData) ==
    [totalAircraft |-> Len(limitedData),
     withPosition |-> Count(limitedData, HasPosition),
     emergency |-> Count(limitedData, IsEmergency),
     military |-> Count(limitedData, IsMilitary),
     commercial |-> Count(limitedData, IsCommercial),
     helicopters |-> Count(limitedData, IsHelicopter)]

NoStats == [totalAircraft |-> 0, withPosition |-> 0, emergency |-> 0,
            military |-> 0, commercial |-> 0, helicopters |-> 0]

\* { ...ac, prevLat, prevLon, interpolationProgress, interpolationStartTime }
Entry(ac, prevLat, prevLon, progress, startTime) ==
    [hex |-> ac.hex, lat |-> ac.lat, lon |-> ac.lon, alt_baro |-> ac.alt_baro,
     emergency |-> ac.emergency, category |-> ac.category,
     prevLat |-> prevLat, prevLon |-> prevLon,
     interpolationProgress |-> progress, interpolationStartTime |-> startTime]

\* "Update existing aircraft with interpolation"
UpdatedEntry(ac, existing, t) == Entry(ac, existing.lat, existing.lon, FracZero, t)

\* a new aircraft that slides in from the origin
NewEntry_SlideIn(ac, t) == Entry(ac, 0, 0, FracZero, t)

\* "New aircraft - start immediately"
NewEntry(ac, t) == Entry(ac, ac.lat, ac.lon, FracOne, t)

\* first forEach of the updater: aircraft with a position
RECURSIVE SetPositions(_, _, _, _, _)
SetPositions(limitedData, i, prevInterpolated, newInterpolated, t) ==
    IF i > Len(limitedData) THEN newInterpolated
    ELSE LET ac == limitedData[i] IN
         IF ~HasPosition(ac)
         THEN SetPositions(limitedData, i + 1, prevInterpolated, newInterpolated, t)
         ELSE LET entry ==
                    IF ac.hex \in DOMAIN prevInterpolated
                    THEN UpdatedEntry(ac, prevInterpolated[ac.hex], t)
                    ELSE NewEntry(ac, t)
              IN SetPositions(limitedData, i + 1, prevInterpolated,
                     (ac.hex :> entry) @@ newInterpolated, t)

\* existing entry kept by the second forEach: younger than the fade window
KeptForFade(existing, t) == t - existing.interpolationStartTime < FadeWindow

\* Math.max(0, 1 - (now - interpolationStartTime) / 1000)
FadeProgress(existing, t) ==
    LET elapsed == t - existing.interpolationStartTime IN
    IF elapsed >= FadeWindow THEN FracZero ELSE Frac(FadeWindow - elapsed, FadeWindow)

\* second forEach of the updater ("clean up aircraft that are no longer present")
RECURSIVE KeepFading(_, _, _, _, _)
KeepFading(limitedData, i, prevInterpolated, newInterpolated, t) ==
    IF i > Len(limitedData) THEN newInterpolated
    ELSE LET ac == limitedData[i] IN
         IF ac.hex # "" /\ ac.hex \in DOMAIN prevInterpolated
               /\ KeptForFade(prevInterpolated[ac.hex], t)
         THEN LET existing == prevInterpolated[ac.hex] IN
              KeepFading(limitedData, i + 1, prevInterpolated,
                  (ac.hex :> [existing EXCEPT !.interpolationProgress = FadeProgress(existing, t)])
                      @@ newInterpolated, t)
         ELSE KeepFading(limitedData, i + 1, prevInterpolated, newInterpolated, t)

\* the setInterpolatedAircraft updater of fetchAircraft, run at Date.now() = t
UpdateInterpolated(prevInterpolated, limitedData, t) ==
    KeepFading(limitedData, 1, prevInterpolated,
        SetPositions(limitedData, 1, prevInterpolated, << >>, t), t)

\* which branch of the updater wrote the entry of hex
BranchOf(prevInterpolated, hex, t) ==
    IF hex \notin DOMAIN prevInterpolated THEN "new"
    ELSE IF KeptForFade(prevInterpolated[hex], t) THEN "kept"
    ELSE "updated"

\* 1 - Math.pow(1 - progress, 3) for progress = Math.min(elapsed / duration, 1)
EasedProgress(elapsed, duration) ==
    LET p == Frac(Min(elapsed, duration), duration)
        d3 == p[2] * p[2] * p[2]
        r == p[2] - p[1]
    IN Frac(d3 - r * r * r, d3)

\* animate without the branch for a completed animation
AnimateEntry_NoFreeze(ac, t) ==
    IF ac.interpolationStartTime # 0
    THEN [ac EXCEPT !.interpolationProgress =
                        EasedProgress(t - ac.interpolationStartTime, interpolationDuration)]
    ELSE ac

\* the body of the for loop of animate for one entry
AnimateEntry(ac, t) ==
    IF ac.interpolationStartTime # 0
    THEN LET elapsed == t - ac.interpolationStartTime
             updated == [ac EXCEPT !.interpolationProgress =
                                       EasedProgress(elapsed, interpolationDuration)]
         IN IF elapsed >= interpolationDuration
            THEN [updated EXCEPT !.interpolationProgress = FracOne,
                                 !.prevLat = updated.lat,
                                 !.prevLon = updated.lon]
            ELSE updated
    ELSE ac

\* an animate that removes the completed animations from the Map
Animate_DropCompleted(prevInterpolated, t) ==
    [hex \in {h \in DOMAIN prevInterpolated :
                t - prevInterpolated[h].interpolationStartTime < interpolationDuration} |->
        AnimateEntry(prevInterpolated[hex], t)]

\* the setInterpolatedAircraft updater of animate, run at Date.now() = t
Animate(prevInterpolated, t) ==
    [hex \in DOMAIN prevInterpolated |-> AnimateEntry(prevInterpolated[hex], t)]

\* prev + (cur - prev) * progress, as a fraction
Lerp(prev, cur, progress) ==
    Frac(prev * progress[2] + (cur - prev) * progress[1], progress[2])

\* getInterpolatedPosition (enableSmoothMotion on)
getInterpolatedPosition(ac) ==
    [lat |-> Lerp(ac.prevLat, ac.lat, ac.interpolationProgress),
     lon |-> Lerp(ac.prevLon, ac.lon, ac.interpolationProgress)]

----------------------------------------------------------------------------
(* Errors *)

DistanceMessage == "Distance cannot exceed 250 nautical miles"

NoErr == [type |-> "none", message |-> "", mounted |-> FALSE]
Ok == [type |-> "ok", message |-> ""]
ApiError(message) == [type |-> "AdsbApiError", message |-> message]
RateLimitError == [type |-> "AdsbRateLimitError", message |-> "Rate limit exceeded"]

\* what reading ac.lat of a null entry throws
TypeError == [type |-> "TypeError", message |-> "Cannot read properties of null (reading 'lat')"]

\* the entries before the null entry of a body { aircraft: [..., null] }
MalformedPrefixes == {<< >>, <<Ac("AE01", 1, 2)>>}

\* what a fetch() may come back with, other than a parsed body
Failures == {"429", "http", "network", "json"}

\* the error makeRequest throws for a failure that is not retried
ErrorOf(failure) ==
    CASE failure = "429" -> RateLimitError
      [] failure = "http" -> ApiError("HTTP 500: Internal Server Error")
      [] failure = "network" -> ApiError("Request failed: Failed to fetch")
      [] failure = "json" -> ApiError("Request failed: Unexpected token")

\* errorMessage of the catch block of fetchAircraft
ErrorMessage(err) ==
    IF err.message = "Request failed: Failed to fetch"
    THEN "Network error - check CORS policy or internet connection"
    ELSE err.message

----------------------------------------------------------------------------
(* Exact arithmetic for the coordinate mapper.  A JavaScript number is taken
   as the rational it stands for: a natural number of any size is the sequence
   of its digits to the base Base, least significant first and without a
   leading zero; an integer is a sign and a magnitude; a rational is a
   numerator over a positive denominator, not reduced. *)

Base == 10000

RECURSIVE Nat2Big(_)
Nat2Big(n) == IF n = 0 THEN << >> ELSE <<n % Base>> \o Nat2Big(n \div Base)

Low(a) == IF a = << >> THEN 0 ELSE Head(a)
Rest(a) == IF a = << >> THEN << >> ELSE Tail(a)

RECURSIVE BigAddC(_, _, _)
BigAddC(a, b, carry) ==
    IF a = << >> /\ b = << >> THEN Nat2Big(carry)
    ELSE LET s == Low(a) + Low(b) + carry
         IN <<s % Base>> \o BigAddC(Rest(a), Rest(b), s \div Base)

BigAdd(a, b) == BigAddC(a, b, 0)

\* a * k + carry for a digit k > 0
RECURSIVE BigScale(_, _, _)
BigScale(a, k, carry) ==
    IF a = << >> THEN Nat2Big(carry)
    ELSE LET s == Head(a) * k + carry
         IN <<s % Base>> \o BigScale(Tail(a), k, s \div Base)

Shift(a) == IF a = << >> THEN << >> ELSE <<0>> \o a

RECURSIVE BigMul(_, _)
BigMul(a, b) ==
    IF a = << >> \/ b = << >> THEN << >>
    ELSE BigAdd(IF Head(b) = 0 THEN << >> ELSE BigScale(a, Head(b), 0),
                Shift(BigMul(a, Tail(b))))

\* the digits i, i - 1, ..., 1 of two numbers of the same length compared
RECURSIVE BigCmpAt(_, _, _)
BigCmpAt(a, b, i) ==
    IF i = 0 THEN 0
    ELSE IF a[i] < b[i] THEN -1
    ELSE IF a[i] > b[i] THEN 1
    ELSE BigCmpAt(a, b, i - 1)

\* -1, 0 or 1 as a is less than, equal to or greater than b
BigCmp(a, b) ==
    IF Len(a) < Len(b) THEN -1
    ELSE IF Len(a) > Len(b) THEN 1
    ELSE BigCmpAt(a, b, Len(a))

RECURSIVE BigSubB(_, _, _)
BigSubB(a, b, borrow) ==
    IF a = << >> THEN << >>
    ELSE LET d == Head(a) - Low(b) - borrow
         IN IF d < 0 THEN <<d + Base>> \o BigSubB(Tail(a), Rest(b), 1)
            ELSE <<d>> \o BigSubB(Tail(a), Rest(b), 0)

RECURSIVE Normal(_)
Normal(a) ==
    IF a # << >> /\ a[Len(a)] = 0 THEN Normal(SubSeq(a, 1, Len(a) - 1)) ELSE a

\* a - b for a >= b
BigSub(a, b) == Normal(BigSubB(a, b, 0))

Z(n) == [neg |-> n < 0, mag |-> Nat2Big(Abs(n))]

ZNeg(a) == [neg |-> ~a.neg /\ a.mag # << >>, mag |-> a.mag]

ZAdd(a, b) ==
    IF a.neg = b.neg THEN [neg |-> a.neg, mag |-> BigAdd(a.mag, b.mag)]
    ELSE LET c == BigCmp(a.mag, b.mag)
         IN IF c = 0 THEN Z(0)
            ELSE IF c > 0 THEN [neg |-> a.neg, mag |-> BigSub(a.mag, b.mag)]
            ELSE [neg |-> b.neg, mag |-> BigSub(b.mag, a.mag)]

ZMul(a, b) ==
    LET m == BigMul(a.mag, b.mag)
    IN [neg |-> m # << >> /\ a.neg # b.neg, mag |-> m]

ZSign(a) == IF a.mag = << >> THEN 0 ELSE IF a.neg THEN -1 ELSE 1

Q(n) == [num |-> Z(n), den |-> Z(1)]

QAdd(p, q) ==
    [num |-> ZAdd(ZMul(p.num, q.den), ZMul(q.num, p.den)), den |-> ZMul(p.den, q.den)]

QSub(p, q) == QAdd(p, [q EXCEPT !.num = ZNeg(@)])

QMul(p, q) == [num |-> ZMul(p.num, q.num), den |-> ZMul(p.den, q.den)]

\* p / q for q # 0
QDiv(p, q) ==
    IF q.num.neg
    THEN [num |-> ZNeg(ZMul(p.num, q.den)), den |-> ZMul(p.den, ZNeg(q.num))]
    ELSE [num |-> ZMul(p.num, q.den), den |-> ZMul(p.den, q.num)]

\* the sign of p - q
QCmp(p, q) == ZSign(ZAdd(ZMul(p.num, q.den), ZNeg(ZMul(q.num, p.den))))

QEq(p, q) == QCmp(p, q) = 0
QLess(p, q) == QCmp(p, q) < 0
QLeq(p, q) == QCmp(p, q) <= 0

----------------------------------------------------------------------------
(* The coordinate mapper.  Latitudes and longitudes are in units of 1e-5
   degrees, the reference points rounded to this unit; pixels are in
   hundredths of a pixel. *)

ADSB_PHILADELPHIA_REFERENCE_POINTS ==
    <<[name |-> "city_hall", lat |-> 3995235, lon |-> -7516363, x |-> 55700, y |-> 44100],
      [name |-> "west_lehigh_ave", lat |-> 3999822, lon |-> -7518745, x |-> 40000, y |-> 4900],
      [name |-> "wiggins_marina", lat |-> 3994210, lon |-> -7513210, x |-> 76353, y |-> 52756],
      [name |-> "camden_petty_island_guard_house", lat |-> 3996757, lon |-> -7508650,
       x |-> 106253, y |-> 30956]>>

\* a calibration A (0,0) -> (0,0), B (1,0) -> (100,0), C (0,1) -> (0,100)
UnitTriangle ==
    <<[name |-> "A", lat |-> 0, lon |-> 0, x |-> 0, y |-> 0],
      [name |-> "B", lat |-> 100000, lon |-> 0, x |-> 10000, y |-> 0],
      [name |-> "C", lat |-> 0, lon |-> 100000, x |-> 0, y |-> 10000]>>

\* a calibration with two points closer to each other than the exact-match distance
CloseTable ==
    <<[name |-> "P", lat |-> 0, lon |-> 0, x |-> 0, y |-> 0],
      [name |-> "Q", lat |-> 0, lon |-> 8, x |-> 10000, y |-> 0],
      [name |-> "R", lat |-> 1000, lon |-> 1000, x |-> 5000, y |-> 10000]>>

\* the tables latLonToPixel is looked at with: the configured one first
Tables == {ADSB_PHILADELPHIA_REFERENCE_POINTS, UnitTriangle, CloseTable}

\* 0.0001 degrees
ExactMatchDistance == 10

\* how far from a reference point, in latitude and in longitude, a query lies
Offsets == {0, 6, 8, -10, 3000, -20000}

\* the query points of a table: around each reference point, and half way
\* between any two of them
Queries(points) ==
    {[lat |-> points[i].lat + dlat, lon |-> points[i].lon + dlon] :
        i \in 1..Len(points), dlat \in Offsets, dlon \in Offsets}
    \cup {[lat |-> (points[i].lat + points[j].lat) \div 2,
           lon |-> (points[i].lon + points[j].lon) \div 2] :
            i \in 1..Len(points), j \in 1..Len(points)}

\* Math.min(...) and Math.max(...) of a field of the points
MinOf(points, f) ==
    CHOOSE m \in {points[i][f] : i \in 1..Len(points)} :
        \A i \in 1..Len(points) : m <= points[i][f]
MaxOf(points, f) ==
    CHOOSE m \in {points[i][f] : i \in 1..Len(points)} :
        \A i \in 1..Len(points) : m >= points[i][f]

\* latDiff * latDiff + lonDiff * lonDiff
Distance2(point, lat, lon) ==
    LET latDiff == Q(lat - point.lat)
        lonDiff == Q(lon - point.lon)
    IN QAdd(QMul(latDiff, latDiff), QMul(lonDiff, lonDiff))

\* `distance < 0.0001` only when the distance is 0
IsExactMatch_OnlyZero(distance2) == QEq(distance2, Q(0))

\* `distance < 0.0001`, for distance = Math.sqrt(distance2)
IsExactMatch(distance2) == QLess(distance2, Q(ExactMatchDistance * ExactMatchDistance))

\* a weight that does not depend on the distance
Weight_Uniform(distance2) == Q(1)

\* 1 / (distance * distance)
Weight(distance2) == QDiv(Q(1), distance2)

\* the loop of latLonToPixel from point i on; acc = [totalWeight, weightedX, weightedY]
RECURSIVE WeighPoints(_, _, _, _, _)
WeighPoints(points, lat, lon, i, acc) ==
    IF i > Len(points) THEN [returned |-> FALSE, acc |-> acc]
    ELSE LET point == points[i]
             distance2 == Distance2(point, lat, lon)
         IN IF IsExactMatch(distance2)
            THEN [returned |-> TRUE, x |-> Q(point.x), y |-> Q(point.y)]
            ELSE LET weight == Weight(distance2)
                 IN WeighPoints(points, lat, lon, i + 1,
                        [totalWeight |-> QAdd(acc.totalWeight, weight),
                         weightedX |-> QAdd(acc.weightedX, QMul(Q(point.x), weight)),
                         weightedY |-> QAdd(acc.weightedY, QMul(Q(point.y), weight))])

\* the Y axis as it is
FlipY_NoFlip(latNorm) == latNorm

\* 1 - latNorm
FlipY(latNorm) == QSub(Q(1), latNorm)

\* the fallback of latLonToPixel
LinearFallback(points, lat, lon) ==
    LET minLat == MinOf(points, "lat")
        maxLat == MaxOf(points, "lat")
        minLon == MinOf(points, "lon")
        maxLon == MaxOf(points, "lon")
        latNorm == QDiv(Q(lat - minLat), Q(maxLat - minLat))
        lonNorm == QDiv(Q(lon - minLon), Q(maxLon - minLon))
        minX == MinOf(points, "x")
        maxX == MaxOf(points, "x")
        minY == MinOf(points, "y")
        maxY == MaxOf(points, "y")
    IN [x |-> QAdd(Q(minX), QMul(lonNorm, Q(maxX - minX))),
        y |-> QAdd(Q(minY), QMul(FlipY(latNorm), Q(maxY - minY)))]

\* lat < minLat || lat > maxLat || lon < minLon || lon > maxLon
OutsideBox(points, lat, lon) ==
    \/ lat < MinOf(points, "lat")
    \/ lat > MaxOf(points, "lat")
    \/ lon < MinOf(points, "lon")
    \/ lon > MaxOf(points, "lon")

\* latLonToPixel(lat, lon) over the table points
latLonToPixelOver(points, lat, lon) ==
    LET loop == WeighPoints(points, lat, lon, 1,
                    [totalWeight |-> Q(0), weightedX |-> Q(0), weightedY |-> Q(0)])
    IN IF loop.returned THEN [x |-> loop.x, y |-> loop.y]
       ELSE IF OutsideBox(points, lat, lon) \/ QEq(loop.acc.totalWeight, Q(0))
       THEN LinearFallback(points, lat, lon)
       ELSE [x |-> QDiv(loop.acc.weightedX, loop.acc.totalWeight),
             y |-> QDiv(loop.acc.weightedY, loop.acc.totalWeight)]

\* latLonToPixel(lat, lon)
latLonToPixel(lat, lon) == latLonToPixelOver(ADSB_PHILADELPHIA_REFERENCE_POINTS, lat, lon)

NoCall == [pc |-> "none"]

\* a call of latLonToPixel that has not run yet
Called(points, q) == [pc |-> "called", points |-> points, lat |-> q.lat, lon |-> q.lon]

----------------------------------------------------------------------------
(* State *)

\* how a fetchAircraft invocation ended: with the list (Ok) or the error err,
\* in the mounted instance or in an unmounted one
Ended(err, mounted) == [type |-> err.type, message |-> err.message, mounted |-> mounted]

Idle == [pc |-> "idle", attempt |-> 0, wake |-> 0, cause |-> ""]

----------------------------------------------------------------------------
(* The app shell (App) and the theme manager *)

\* the names of the apps, in the order of the list
apps == <<"welcome", "clock", "adsb", "weather">>

\* Object.keys(CRT_THEMES)
ThemeNames == <<"green", "amber", "cyan", "white", "red", "purple">>

\* names that CRT_THEMES, an object literal, inherits from Object.prototype
ObjectPrototypeNames == {"constructor", "toString", "__proto__"}

\* list[i], for an index i that counts from 0
At(list, i) == list[i + 1]

\* list.findIndex(...) and list.indexOf(x): the first index of x, or -1
FindIndex(list, x) ==
    IF \E i \in 1..Len(list) : list[i] = x
    THEN (CHOOSE i \in 1..Len(list) : list[i] = x /\ \A j \in 1..(i - 1) : list[j] # x) - 1
    ELSE -1

\* config.display: staticApp "" stands for a missing or empty name, and
\* skipWelcomeInCycling may be missing
Configs ==
    LET Base2 == [enableCycling : BOOLEAN,
                  staticApp : {"", "welcome", "clock", "adsb", "weather", "radar"}]
    IN Base2 \cup [enableCycling : BOOLEAN,
                   staticApp : {"", "welcome", "clock", "adsb", "weather", "radar"},
                   skipWelcomeInCycling : BOOLEAN]

\* config.display.enableCycling && (config.display.skipWelcomeInCycling ?? true)
SkipWelcome ==
    /\ config.enableCycling
    /\ IF "skipWelcomeInCycling" \in DOMAIN config THEN config.skipWelcomeInCycling ELSE TRUE

\* getCyclingApps() without the filter
getCyclingApps_All == apps

getCyclingApps ==
    IF SkipWelcome THEN SelectSeq(apps, LAMBDA app : app # "welcome") ELSE apps

getInitialAppIndex ==
    IF ~config.enableCycling /\ config.staticApp # ""
    THEN LET staticAppIndex == FindIndex(apps, config.staticApp)
         IN IF staticAppIndex >= 0 THEN staticAppIndex ELSE 0
    ELSE IF SkipWelcome THEN 1 ELSE 0

\* currentAppIndex as handleKeyPress reads it: the effect that registers the
\* handler has no dependencies, so the handler is the one of the first render
HandlerAppIndex == getInitialAppIndex

\* CRT_THEMES[name]: a theme, a property of Object.prototype, or undefined
Lookup(name) ==
    IF FindIndex(ThemeNames, name) >= 0 THEN "theme"
    ELSE IF name \in ObjectPrototypeNames THEN "inherited"
    ELSE "undefined"

\* applyTheme(themeName) on a manager with the current theme theme and the
\* stored theme stored: the two afterwards, and what the call returns ("true",
\* "false") or throws; colors of an inherited property is undefined
applyTheme(themeName, theme, stored) ==
    CASE Lookup(themeName) = "undefined" ->
           [currentTheme |-> theme, stored |-> stored, result |-> "false"]
      [] Lookup(themeName) = "inherited" ->
           [currentTheme |-> theme, stored |-> stored, result |-> "TypeError"]
      [] Lookup(themeName) = "theme" ->
           [currentTheme |-> themeName, stored |-> themeName, result |-> "true"]

\* nextTheme of nextTheme()
NextThemeName(theme) ==
    LET currentIndex == FindIndex(ThemeNames, theme)
        nextIndex == (currentIndex + 1) % Len(ThemeNames)
    IN At(ThemeNames, nextIndex)

\* prevTheme of previousTheme(); themeNames[-2] is undefined
PreviousThemeName(theme) ==
    LET currentIndex == FindIndex(ThemeNames, theme)
        prevIndex == IF currentIndex = 0 THEN Len(ThemeNames) - 1 ELSE currentIndex - 1
    IN IF prevIndex >= 0 THEN At(ThemeNames, prevIndex) ELSE "undefined"

\* what localStorage may hold when the page loads; Null for no item
SavedThemes ==
    {Null, "", "neon", "constructor"} \cup {ThemeNames[i] : i \in 1..Len(ThemeNames)}

\* the names applyTheme is called with
AppliedNames == SavedThemes \ {Null}

\* new ThemeManager() with savedTheme in localStorage
Constructed(savedTheme) ==
    LET initial == IF savedTheme # Null /\ savedTheme # "" /\ Lookup(savedTheme) # "undefined"
                   THEN savedTheme ELSE "green"
    IN applyTheme(initial, initial, savedTheme)

Event(type, arg, result) ==
    [type |-> type, arg |-> arg, result |-> result, index |-> currentAppIndex,
     theme |-> currentTheme, stored |-> localStorage]

\* the page after loading with the configuration display and savedTheme in
\* localStorage
Loads(display, savedTheme) ==
    /\ config = display
    /\ currentTheme = Constructed(savedTheme).currentTheme
    /\ localStorage = Constructed(savedTheme).stored
    /\ lastEvent = [type |-> "load", arg |-> savedTheme,
                    result |-> Constructed(savedTheme).result,
                    index |-> getInitialAppIndex, theme |-> "green", stored |-> savedTheme]
    /\ currentAppIndex = getInitialAppIndex

\* the constructor of the theme manager returned, so that App is rendered
Loaded == ~(lastEvent.type = "load" /\ lastEvent.result = "TypeError")

\* the tracker is the static app of the display
AdsbOnDisplay == Loads([enableCycling |-> FALSE, staticApp |-> "adsb"], Null)

ShellUnchanged == UNCHANGED <<trackerVars, mapCall, config>>

\* handleKeyPress, case 'x'
KeyX ==
    /\ Loaded
    /\ currentAppIndex' =
         IF SkipWelcome
         THEN LET cyclingApps == getCyclingApps
                  currentCyclingIndex == FindIndex(cyclingApps, At(apps, HandlerAppIndex))
                  nextCyclingIndex == (currentCyclingIndex + 1) % Len(cyclingApps)
              IN FindIndex(apps, At(cyclingApps, nextCyclingIndex))
         ELSE (currentAppIndex + 1) % Len(apps)
    /\ lastEvent' = Event("x", "", "")
    /\ UNCHANGED <<currentTheme, localStorage>>
    /\ ShellUnchanged

\* handleKeyPress, case 'z'
KeyZ ==
    /\ Loaded
    /\ currentAppIndex' =
         IF SkipWelcome
         THEN LET cyclingApps == getCyclingApps
                  currentCyclingIndex == FindIndex(cyclingApps, At(apps, HandlerAppIndex))
                  prevCyclingIndex ==
                      (currentCyclingIndex - 1 + Len(cyclingApps)) % Len(cyclingApps)
              IN FindIndex(apps, At(cyclingApps, prevCyclingIndex))
         ELSE (currentAppIndex - 1 + Len(apps)) % Len(apps)
    /\ lastEvent' = Event("z", "", "")
    /\ UNCHANGED <<currentTheme, localStorage>>
    /\ ShellUnchanged

\* the callback of the cycle interval, which exists when cycling is enabled
CycleTimer ==
    /\ Loaded
    /\ config.enableCycling
    /\ LET cyclingApps == getCyclingApps
           currentCyclingIndex == FindIndex(cyclingApps, At(apps, currentAppIndex))
           nextCyclingIndex == (currentCyclingIndex + 1) % Len(cyclingApps)
       IN currentAppIndex' = FindIndex(apps, At(cyclingApps, nextCyclingIndex))
    /\ lastEvent' = Event("timer", "", "")
    /\ UNCHANGED <<currentTheme, localStorage>>
    /\ ShellUnchanged

\* themeManager.applyTheme(themeName)
ApplyTheme(themeName) ==
    /\ Loaded
    /\ LET applied == applyTheme(themeName, currentTheme, localStorage)
       IN /\ currentTheme' = applied.currentTheme
          /\ localStorage' = applied.stored
          /\ lastEvent' = Event("applyTheme", themeName, applied.result)
    /\ UNCHANGED currentAppIndex
    /\ ShellUnchanged

\* handleKeyPress, case ']': themeManager.nextTheme()
KeyNextTheme ==
    /\ Loaded
    /\ LET nextTheme == NextThemeName(currentTheme)
           applied == applyTheme(nextTheme, currentTheme, localStorage)
       IN /\ currentTheme' = applied.currentTheme
          /\ localStorage' = applied.stored
          /\ lastEvent' = Event("]", "", nextTheme)
    /\ UNCHANGED currentAppIndex
    /\ ShellUnchanged

\* handleKeyPress, case '[': themeManager.previousTheme()
KeyPreviousTheme ==
    /\ Loaded
    /\ LET prevTheme == PreviousThemeName(currentTheme)
           applied == applyTheme(prevTheme, currentTheme, localStorage)
       IN /\ currentTheme' = applied.currentTheme
          /\ localStorage' = applied.stored
          /\ lastEvent' = Event("[", "", prevTheme)
    /\ UNCHANGED currentAppIndex
    /\ ShellUnchanged

\* the radii the tracker may be mounted with
Radii == {250, 251}

InitTracker ==
    /\ now = Epoch
    /\ lastRequestTime = 0
    /\ aircraftTrails = << >>
    /\ heap = << >>
    /\ httpRequests = 0
    /\ poll = [p \in Slots |-> Idle]
    /\ orphaned = {}
    /\ pollsStarted = 0
    /\ interval = [armed |-> FALSE, due |-> 0, period |-> 0]
    /\ aircraft = << >>
    /\ interpolatedAircraft = << >>
    /\ trailsState = << >>
    /\ stats = NoStats
    /\ loading = TRUE
    /\ error = Null
    /\ origin = << >>
    /\ trailEvents = NoTrailEvents
    /\ outcome = NoErr
    /\ query = 0

\* the tracker after construction; no latLonToPixel call is looked at
Init ==
    /\ InitTracker
    /\ AdsbOnDisplay
    /\ mapCall = NoCall

SdkUnchanged == UNCHANGED <<lastRequestTime, aircraftTrails, heap, httpRequests, trailEvents>>
DisplayUnchanged == UNCHANGED <<aircraft, interpolatedAircraft, trailsState, stats, origin>>

\* the slot a new fetchAircraft invocation runs in
FreeSlot(p) == poll[p].pc = "idle" /\ \A q \in Slots : poll[q].pc = "idle" => p <= q

\* fetchAircraft invocations that have ended
Finished == pollsStarted - Cardinality({p \in Slots : poll[p].pc # "idle"})

----------------------------------------------------------------------------
(* Component: the two ends of fetchAircraft *)

\* the catch block of fetchAircraft, for the error err
Catch(err) ==
    /\ error' = ErrorMessage(err)
    /\ loading' = FALSE
    /\ outcome' = Ended(err, TRUE)
    /\ DisplayUnchanged

\* the try block of fetchAircraft after the await, for the list data
Apply(data, trails, t) ==
    LET limitedData == LimitData(data)
        newInterpolated == UpdateInterpolated(interpolatedAircraft, limitedData, t)
    IN /\ aircraft' = limitedData
       /\ interpolatedAircraft' = newInterpolated
       /\ origin' = [hex \in DOMAIN newInterpolated |->
                        BranchOf(interpolatedAircraft, hex, t)]
       /\ trailsState' = trails
       /\ stats' = CalcStats(limitedData)
       /\ loading' = FALSE
       /\ outcome' = Ended(Ok, TRUE)

----------------------------------------------------------------------------
(* SDK: enforceRateLimit, makeRequest, getAircraftByLocation *)

\* makeRequest(url, config, attempt) up to its first suspension: enforceRateLimit
\* either stamps lastRequestTime and fetch() is issued, or sleeps first
MakeRequest(p, attempt) ==
    LET timeSinceLastRequest == now - lastRequestTime IN
    IF timeSinceLastRequest < RATE_LIMIT_DELAY
    THEN /\ poll' = [poll EXCEPT ![p] =
                        [pc |-> "ratewait", attempt |-> attempt, cause |-> "",
                         wake |-> now + (RATE_LIMIT_DELAY - timeSinceLastRequest)]]
         /\ UNCHANGED <<lastRequestTime, httpRequests>>
    ELSE /\ lastRequestTime' = now
         /\ httpRequests' = httpRequests + 1
         /\ poll' = [poll EXCEPT ![p] =
                        [pc |-> "fetching", attempt |-> attempt, wake |-> 0, cause |-> ""]]

DistanceRejected_Inclusive(dist) == dist >= MAX_DISTANCE_NM

\* the guard of getAircraftByLocation
DistanceRejected(dist) == dist > MAX_DISTANCE_NM

ClearError_Skipped == error' = error

\* setError(null) at the start of fetchAircraft
ClearError == error' = Null

\* fetchAircraft() up to its first suspension; a radius above the maximum makes
\* getAircraftByLocation throw at once, and the catch block runs
FetchAircraft(p, dist) ==
    /\ FreeSlot(p)
    /\ pollsStarted < MaxPolls
    /\ pollsStarted' = pollsStarted + 1
    /\ IF DistanceRejected(dist)
       THEN /\ Catch(ApiError(DistanceMessage))
            /\ UNCHANGED <<poll, lastRequestTime, httpRequests>>
       ELSE /\ ClearError
            /\ MakeRequest(p, 1)
            /\ UNCHANGED <<loading, outcome>>
            /\ DisplayUnchanged
    /\ UNCHANGED <<now, aircraftTrails, heap, trailEvents, orphaned>>

\* an instance is mounted with location.radius = dist; the poll effect makes
\* the initial fetch, then setInterval
Mount(p, dist) ==
    /\ ~interval.armed
    /\ query' = dist
    /\ FetchAircraft(p, dist)
    /\ interval' = [armed |-> TRUE, due |-> now + REFRESH_INTERVAL, period |-> REFRESH_INTERVAL]
    /\ UNCHANGED <<mapCall, shellVars>>

\* the interval callback
IntervalFire(p) ==
    /\ interval.armed
    /\ now >= interval.due
    /\ FetchAircraft(p, query)
    /\ interval' = [interval EXCEPT !.due = now + interval.period]
    /\ UNCHANGED query
    /\ UNCHANGED <<mapCall, shellVars>>

\* the instance is unmounted: clearInterval, cancelAnimationFrame; its state is
\* gone, and the invocations in flight go on without it
Unmount ==
    /\ interval.armed
    /\ pollsStarted < MaxPolls
    /\ interval' = [armed |-> FALSE, due |-> 0, period |-> 0]
    /\ orphaned' = {p \in Slots : poll[p].pc # "idle"}
    /\ aircraft' = << >>
    /\ interpolatedAircraft' = << >>
    /\ trailsState' = << >>
    /\ stats' = NoStats
    /\ loading' = TRUE
    /\ error' = Null
    /\ origin' = << >>
    /\ heap' = Collect(heap, aircraftTrails, << >>)
    /\ UNCHANGED <<now, poll, pollsStarted, outcome, query>>
    /\ UNCHANGED <<lastRequestTime, aircraftTrails, httpRequests, trailEvents>>
    /\ UNCHANGED <<mapCall, shellVars>>

\* the setTimeout of enforceRateLimit fires: stamp, then fetch()
RateLimitWake(p) ==
    /\ poll[p].pc = "ratewait"
    /\ now >= poll[p].wake
    /\ lastRequestTime' = now
    /\ httpRequests' = httpRequests + 1
    /\ poll' = [poll EXCEPT ![p] = [@ EXCEPT !.pc = "fetching", !.wake = 0]]
    /\ UNCHANGED <<now, aircraftTrails, heap, trailEvents, orphaned, pollsStarted, interval,
                   loading, error, outcome, query>>
    /\ DisplayUnchanged
    /\ UNCHANGED <<mapCall, shellVars>>

\* fetch() and response.json() succeed: makeRequest returns, getAircraftByLocation
\* updates the trails and returns the list, fetchAircraft goes on after its await
FetchOk(p, data) ==
    /\ poll[p].pc = "fetching"
    /\ LET u == updateAircraftTrails(data, now) IN
         /\ aircraftTrails' = u.trails
         /\ trailEvents' = u.events
         /\ IF p \in orphaned
            THEN /\ outcome' = Ended(Ok, FALSE)
                 /\ heap' = Collect(u.heap, u.trails, trailsState)
                 /\ UNCHANGED loading
                 /\ DisplayUnchanged
            ELSE /\ Apply(data, u.trails, now)
                 /\ heap' = Collect(u.heap, u.trails, u.trails)
    /\ poll' = [poll EXCEPT ![p] = Idle]
    /\ orphaned' = orphaned \ {p}
    /\ UNCHANGED <<now, lastRequestTime, httpRequests, pollsStarted, interval, error,
                   query>>
    /\ UNCHANGED <<mapCall, shellVars>>

\* fetch() and response.json() succeed, but the list of the body holds a null
\* entry: makeRequest returns, updateAircraftTrails throws a TypeError half way,
\* getAircraftByLocation rejects with it, and the catch block of fetchAircraft runs
FetchMalformed(p, prefix) ==
    /\ poll[p].pc = "fetching"
    /\ LET u == updateAircraftTrailsThrows(prefix, now) IN
         /\ aircraftTrails' = u.trails
         /\ trailEvents' = u.events
         /\ heap' = Collect(u.heap, u.trails, trailsState)
    /\ IF p \in orphaned
       THEN /\ outcome' = Ended(TypeError, FALSE)
            /\ UNCHANGED <<loading, error>>
            /\ DisplayUnchanged
       ELSE Catch(TypeError)
    /\ poll' = [poll EXCEPT ![p] = Idle]
    /\ orphaned' = orphaned \ {p}
    /\ UNCHANGED <<now, lastRequestTime, httpRequests, pollsStarted, interval, query>>
    /\ UNCHANGED <<mapCall, shellVars>>

Retried_AnyFailure(failure, attempt) == attempt < retryAttempts

\* the catch block of makeRequest retries: error instanceof AdsbRateLimitError
\* and attempt < config.retryAttempts
Retried(failure, attempt) == failure = "429" /\ attempt < retryAttempts

\* fetch() fails, or the status is not ok, or the body does not parse: a 429 is
\* retried after a backoff, anything else is thrown to fetchAircraft; cause
\* remembers what the backoff answers
FetchFail(p, failure) ==
    /\ poll[p].pc = "fetching"
    /\ IF Retried(failure, poll[p].attempt)
       THEN /\ poll' = [poll EXCEPT ![p] =
                           [@ EXCEPT !.pc = "backoff",
                                     !.cause = failure,
                                     !.wake = now + RATE_LIMIT_DELAY * Pow2(poll[p].attempt - 1)]]
            /\ UNCHANGED <<loading, error, outcome>>
            /\ DisplayUnchanged
            /\ UNCHANGED orphaned
       ELSE /\ poll' = [poll EXCEPT ![p] = Idle]
            /\ orphaned' = orphaned \ {p}
            /\ IF p \in orphaned
               THEN /\ outcome' = Ended(ErrorOf(failure), FALSE)
                    /\ UNCHANGED <<loading, error>>
                    /\ DisplayUnchanged
               ELSE Catch(ErrorOf(failure))
    /\ UNCHANGED <<now, pollsStarted, interval, query>>
    /\ SdkUnchanged
    /\ UNCHANGED <<mapCall, shellVars>>

\* the backoff setTimeout fires: makeRequest(url, config, attempt + 1)
BackoffWake(p) ==
    /\ poll[p].pc = "backoff"
    /\ now >= poll[p].wake
    /\ MakeRequest(p, poll[p].attempt + 1)
    /\ UNCHANGED <<now, aircraftTrails, heap, trailEvents, orphaned, pollsStarted, interval,
                   loading, error, outcome, query>>
    /\ DisplayUnchanged
    /\ UNCHANGED <<mapCall, shellVars>>

----------------------------------------------------------------------------
(* Component: the animation frame; the clock *)

\* one requestAnimationFrame callback
AnimationFrame ==
    /\ interval.armed
    /\ interpolatedAircraft' = Animate(interpolatedAircraft, now)
    /\ UNCHANGED <<now, poll, orphaned, pollsStarted, interval, aircraft, trailsState, stats,
                   loading, error, origin, outcome, query>>
    /\ SdkUnchanged
    /\ UNCHANGED <<mapCall, shellVars>>

\* the clock advances by one step
Tick ==
    /\ ((now - Epoch) % LongIdle) + TimeStep <= MaxSteps * TimeStep
    /\ now' = now + TimeStep
    /\ UNCHANGED <<poll, orphaned, pollsStarted, interval, loading, error, outcome, query>>
    /\ SdkUnchanged
    /\ DisplayUnchanged
    /\ UNCHANGED <<mapCall, shellVars>>

\* a long pause; a request in flight ends within its timeout and a rate-limit
\* wait within a second, so the pause falls between polls or into a backoff
LongPause ==
    /\ now - Epoch < LongIdle
    /\ \A p \in Slots : poll[p].pc \in {"idle", "backoff"}
    /\ now' = now + LongIdle
    /\ UNCHANGED <<poll, orphaned, pollsStarted, interval, loading, error, outcome, query>>
    /\ SdkUnchanged
    /\ DisplayUnchanged
    /\ UNCHANGED <<mapCall, shellVars>>

Next ==
    \/ \E p \in Slots, dist \in Radii : Mount(p, dist)
    \/ \E p \in Slots : IntervalFire(p)
    \/ Unmount
    \/ \E p \in Slots : RateLimitWake(p)
    \/ \E p \in Slots, data \in Snapshots : FetchOk(p, data)
    \/ \E p \in Slots, prefix \in MalformedPrefixes : FetchMalformed(p, prefix)
    \/ \E p \in Slots, failure \in Failures : FetchFail(p, failure)
    \/ \E p \in Slots : BackoffWake(p)
    \/ AnimationFrame
    \/ Tick
    \/ LongPause

Spec == Init /\ [][Next]_vars

\* latLonToPixel runs on the table and the query point of the call
LatLonToPixel ==
    /\ mapCall.pc = "called"
    /\ LET pixel == IF mapCall.points = ADSB_PHILADELPHIA_REFERENCE_POINTS
                    THEN latLonToPixel(mapCall.lat, mapCall.lon)
                    ELSE latLonToPixelOver(mapCall.points, mapCall.lat, mapCall.lon)
       IN mapCall' = [pc |-> "returned", points |-> mapCall.points,
                      lat |-> mapCall.lat, lon |-> mapCall.lon,
                      x |-> pixel.x, y |-> pixel.y]
    /\ UNCHANGED <<trackerVars, shellVars>>

\* a call of latLonToPixel on one of the tables with one of its query points
MapInit ==
    /\ InitTracker
    /\ AdsbOnDisplay
    /\ \E points \in Tables : \E q \in Queries(points) : mapCall = Called(points, q)

MapNext == LatLonToPixel

MapSpec == MapInit /\ [][MapNext]_vars


----------------------------------------------------------------------------
(* Steps, as the properties below see them *)

\* a fetchAircraft invocation ends in this step
PollEnds == Finished' = Finished + 1

\* ... and it belongs to the mounted instance
OfMounted == outcome'.mounted

\* ... with a list: updateAircraftTrails has run
PollSucceeds == PollEnds /\ outcome'.type = "ok"

\* ... after updateAircraftTrails was entered, whether it returned or threw
TrailsRecorded == PollEnds /\ outcome'.type \in {"ok", "TypeError"}

\* ... with a list, in the mounted instance: the try block has run too
PollApplied == PollSucceeds /\ OfMounted

\* ... with an error, in the mounted instance: the catch block has run
PollFails == PollEnds /\ outcome'.type # "ok" /\ OfMounted

\* a fetchAircraft invocation starts in this step
PollStarts == pollsStarted' = pollsStarted + 1

PositionsOf(hex) == heap[aircraftTrails[hex]].positions

----------------------------------------------------------------------------
(* The trail store *)

\* C1: every trail of the store holds at most maxLength = TRAIL_LENGTH positions,
\* and a poll changes the trail of a hex only by appending one position; when
\* that exceeds maxLength the oldest positions are dropped and the others keep
\* their order.
C1_TrailBounded ==
    /\ [](\A hex \in DOMAIN aircraftTrails :
            /\ heap[aircraftTrails[hex]].maxLength = TRAIL_LENGTH
            /\ Len(PositionsOf(hex)) <= TRAIL_LENGTH)
    /\ [][\A hex \in DOMAIN aircraftTrails \cap DOMAIN aircraftTrails' :
            LET old == PositionsOf(hex)
                new == PositionsOf(hex)'
                carried == Len(new) - 1
            IN IF TrailsRecorded /\ hex \in trailEvents'.truncated
               THEN /\ Len(old) = TRAIL_LENGTH
                    /\ Len(new) = TRAIL_LENGTH
                    /\ new[Len(new)].timestamp = now
                    /\ \A i \in 1..carried : new[i] = old[i + 1]
               ELSE \/ new = old
                    \/ /\ Len(new) = Len(old) + 1
                       /\ new[Len(new)].timestamp = now
                       /\ \A i \in 1..carried : new[i] = old[i]]_vars

\* a poll has dropped the oldest position of a full trail
C1_Witness ==
    \E hex \in DOMAIN aircraftTrails :
        /\ hex \in trailEvents.truncated
        /\ Len(PositionsOf(hex)) = TRAIL_LENGTH
        /\ PositionsOf(hex)[1].timestamp > Epoch

\* C2: the trail update of a poll removes a trail iff its hex is not among the
\* hex codes of the fetched list and its last position is older than now minus
\* five minutes; a trail whose hex is in the fetched list stays, with or without
\* a position in the list.
C2_EvictIffStale ==
    [][PollSucceeds =>
         \A hex \in DOMAIN aircraftTrails :
            LET last == PositionsOf(hex)[Len(PositionsOf(hex))] IN
            (hex \notin DOMAIN aircraftTrails')
               <=> (hex \notin trailEvents'.active /\ last.timestamp < now - TrailCutoff)]_vars

\* a poll has removed a stale trail and kept an old one whose hex it reported
\* without a position
C2_Witness ==
    /\ trailEvents.evicted # {}
    /\ \E hex \in DOMAIN aircraftTrails :
          /\ hex \in trailEvents.active
          /\ PositionsOf(hex)[Len(PositionsOf(hex))].timestamp < now - TrailCutoff

----------------------------------------------------------------------------
(* The interpolation map *)

\* an animation frame runs in this step (or nothing happens)
FrameStep ==
    poll' = poll /\ pollsStarted' = pollsStarted /\ now' = now /\ interval' = interval

\* the aircraft of the displayed list of a poll that carry a position
Reported(list) == {i \in 1..Len(list) : HasPosition(list[i])}

\* the position lat, lon as exact fractions
Exactly(lat, lon) == [lat |-> Frac(lat, 1), lon |-> Frac(lon, 1)]

\* C3: an aircraft of the interpolation map that is absent from the list of a
\* successful poll is still in the map after that poll, as it is removed
\* only after a fade of about 1000 ms; stated for the entries whose
\* interpolationStartTime is less than 1000 ms old.
C3_MissingRetained ==
    [][PollApplied =>
         \A hex \in DOMAIN interpolatedAircraft :
            (/\ hex \notin HexesOf(aircraft')
             /\ now - interpolatedAircraft[hex].interpolationStartTime < FadeWindow)
            => hex \in DOMAIN interpolatedAircraft']_vars

\* C4: after a successful poll that reports, with a position, an aircraft that
\* was in the interpolation map, the entry holds the reported position as lat/lon,
\* interpolationProgress 0 and interpolationStartTime = the time of the poll,
\* whatever the time since the previous poll.
C4_UpdateResets ==
    [][PollApplied =>
         \A i \in Reported(aircraft') :
            LET ac == aircraft'[i] IN
            ac.hex \in DOMAIN interpolatedAircraft =>
               /\ ac.hex \in DOMAIN interpolatedAircraft'
               /\ interpolatedAircraft'[ac.hex].lat = ac.lat
               /\ interpolatedAircraft'[ac.hex].lon = ac.lon
               /\ interpolatedAircraft'[ac.hex].interpolationProgress = FracZero
               /\ interpolatedAircraft'[ac.hex].interpolationStartTime = now]_vars

\* C5: an animation frame at or after interpolationStartTime + interpolationDuration
\* leaves the entry with interpolationProgress exactly 1 and prevLat/prevLon equal
\* to lat/lon, its lat/lon and start time unchanged, so that the rendered position
\* is exactly lat/lon; this holds for the first such frame and for every later one.
C5_BlendCompletes ==
    [][FrameStep =>
         \A hex \in DOMAIN interpolatedAircraft :
            LET before == interpolatedAircraft[hex] IN
            now >= before.interpolationStartTime + interpolationDuration =>
               /\ hex \in DOMAIN interpolatedAircraft'
               /\ LET after == interpolatedAircraft'[hex] IN
                    /\ after.interpolationProgress = FracOne
                    /\ after.prevLat = before.lat /\ after.prevLon = before.lon
                    /\ after.lat = before.lat /\ after.lon = before.lon
                    /\ after.interpolationStartTime = before.interpolationStartTime
                    /\ getInterpolatedPosition(after) = Exactly(before.lat, before.lon)]_vars

\* a blend that started away from its target has been completed by a frame
C5_Witness ==
    \E hex \in DOMAIN interpolatedAircraft :
        LET ac == interpolatedAircraft[hex] IN
        /\ origin[hex] = "updated"
        /\ aircraft # << >> /\ \E i \in 1..Len(aircraft) : aircraft[i].hex = hex
        /\ now >= ac.interpolationStartTime + interpolationDuration
        /\ ac.interpolationProgress = FracOne
        /\ ac.prevLat = ac.lat /\ ac.prevLon = ac.lon

\* C6: an aircraft reported with a position by a successful poll and absent from
\* the interpolation map before is entered with interpolationProgress 1 and
\* prevLat/prevLon equal to the reported lat/lon; and as long as its entry is the
\* one written for a new aircraft, the rendered position is exactly lat/lon,
\* whatever the animation frames made of interpolationProgress.
C6_NewRendersInPlace ==
    /\ [](\A hex \in DOMAIN interpolatedAircraft :
            origin[hex] = "new" =>
               LET ac == interpolatedAircraft[hex] IN
               /\ ac.prevLat = ac.lat /\ ac.prevLon = ac.lon
               /\ getInterpolatedPosition(ac) = Exactly(ac.lat, ac.lon))
    /\ [][PollApplied =>
            \A i \in Reported(aircraft') :
               LET ac == aircraft'[i] IN
               ac.hex \notin DOMAIN interpolatedAircraft =>
                  /\ ac.hex \in DOMAIN interpolatedAircraft'
                  /\ origin'[ac.hex] = "new"
                  /\ interpolatedAircraft'[ac.hex].lat = ac.lat
                  /\ interpolatedAircraft'[ac.hex].lon = ac.lon
                  /\ interpolatedAircraft'[ac.hex].prevLat = ac.lat
                  /\ interpolatedAircraft'[ac.hex].prevLon = ac.lon
                  /\ interpolatedAircraft'[ac.hex].interpolationProgress = FracOne]_vars

\* a frame has lowered the progress of a new aircraft's entry below 1
C6_Witness ==
    \E hex \in DOMAIN interpolatedAircraft :
        LET ac == interpolatedAircraft[hex] IN
        /\ origin[hex] = "new"
        /\ ac.interpolationProgress # FracOne
        /\ ac.interpolationProgress # FracZero
        /\ now > ac.interpolationStartTime

\* C7: when a successful poll updates the entry of a tracked aircraft whose
\* interpolationProgress is below 1, the new prevLat/prevLon are the position
\* rendered from the old entry, lerp(old prev, old lat/lon, old
\* interpolationProgress).
C7_BlendFromRendered ==
    [][PollApplied =>
         \A hex \in DOMAIN interpolatedAircraft \cap DOMAIN interpolatedAircraft' :
            (/\ origin'[hex] = "updated"
             /\ interpolatedAircraft[hex].interpolationProgress # FracOne)
            =>
               Exactly(interpolatedAircraft'[hex].prevLat, interpolatedAircraft'[hex].prevLon)
                  = getInterpolatedPosition(interpolatedAircraft[hex])]_vars

----------------------------------------------------------------------------
(* Failed polls *)

\* the trails the component holds, with their contents
SnapshotTrails == [hex \in DOMAIN trailsState |-> heap[trailsState[hex]]]

\* C8: a fetchAircraft invocation that ends with an error leaves the aircraft
\* list, the interpolation map, the trail snapshot of the component and the stats
\* unchanged and sets the error message; the error ends in the catch block, the
\* invocation is over and nothing else of the component moves.
C8_FailureKeepsDisplay ==
    [][PollFails =>
         /\ aircraft' = aircraft
         /\ interpolatedAircraft' = interpolatedAircraft
         /\ SnapshotTrails' = SnapshotTrails
         /\ stats' = stats
         /\ error' # Null
         /\ error' = ErrorMessage(outcome')
         /\ loading' = FALSE
         /\ \A p \in Slots : poll'[p].pc = "idle" \/ poll'[p] = poll[p]]_vars

C10_RadiusGuard ==
    [][PollStarts =>
         IF query' > 250
         THEN /\ PollEnds
              /\ outcome' = Ended(ApiError(DistanceMessage), TRUE)
              /\ httpRequests' = httpRequests
              /\ lastRequestTime' = lastRequestTime
              /\ aircraftTrails' = aircraftTrails
              /\ heap' = heap
              /\ poll' = poll
         ELSE /\ ~PollEnds
              /\ outcome' = outcome
              /\ \E p \in Slots : /\ poll[p].pc = "idle"
                                  /\ poll'[p].pc \in {"fetching", "ratewait"}]_vars

\* a radius of 251 has been rejected while the store held trails and a request
\* had been made before
C10_Witness ==
    /\ query > 250
    /\ outcome = Ended(ApiError(DistanceMessage), TRUE)
    /\ DOMAIN aircraftTrails # {}
    /\ lastRequestTime > 0

----------------------------------------------------------------------------
(* The SDK under overlapping callers *)

\* a fetch() is issued in this step
RequestIssued == httpRequests' = httpRequests + 1

\* C11: whenever a request is issued after an earlier one, at least retryDelay
\* = RATE_LIMIT_DELAY ms have passed since the earlier request (lastRequestTime
\* is the time of the earlier request: the stamp and the fetch() are one step).
C11_RequestsSpaced ==
    [][(RequestIssued /\ httpRequests > 0) =>
          now - lastRequestTime >= RATE_LIMIT_DELAY]_vars

\* the steps a makeRequest call has left at most: three per attempt
Rank(call) ==
    IF call.pc = "idle" THEN 0
    ELSE 3 * (retryAttempts - call.attempt)
         + (CASE call.pc = "ratewait" -> 3 [] call.pc = "fetching" -> 2 [] call.pc = "backoff" -> 1)

StoreTrails == [hex \in DOMAIN aircraftTrails |-> TrailOf(aircraftTrails, hex)]

\* C13: a getAircraftByLocation call that fails rejects with an AdsbApiError
\* (an AdsbRateLimitError is one) and leaves the keys and the positions of the
\* trail store as they were.
C13_FailuresTyped ==
    [][(PollEnds /\ outcome'.type # "ok") =>
         /\ outcome'.type \in {"AdsbApiError", "AdsbRateLimitError"}
         /\ StoreTrails' = StoreTrails]_vars

\* C14: the Map that getAllTrails returned keeps its content, the keys and the
\* positions of each trail, for as long as its holder keeps it: through every
\* step in which the component neither takes a new snapshot nor is torn down.
C14_SnapshotIsolated ==
    [][(~PollApplied /\ interval'.armed) => SnapshotTrails' = SnapshotTrails]_vars

\* the objects of a list that have a position
Positioned(list) == {list[i].hex : i \in {j \in 1..Len(list) : HasPosition(list[j])}}

\* C15: in a poll cycle of the component the objects that get a position
\* recorded in the trail store are those of the filtered and capped list, the
\* one the component displays, that have a position, and no others.
C15_TrailsOfDisplayed ==
    [][PollApplied => trailEvents'.recorded = Positioned(aircraft')]_vars

\* the state of the component
ComponentState == <<aircraft, interpolatedAircraft, trailsState, stats, loading, error>>

\* C16: while the component is torn down no poll starts and no frame runs, and
\* neither the state of the component nor the trail store of the SDK changes,
\* also when a fetch was in flight at teardown.
C16_QuietAfterTeardown ==
    [][(~interval.armed /\ ~interval'.armed) =>
         /\ ~PollStarts
         /\ ComponentState' = ComponentState
         /\ StoreTrails' = StoreTrails]_vars

\* no fetchAircraft invocation is under way after this step
AllCompleted == \A p \in Slots : poll'[p].pc = "idle"

\* C17: when the last of the invocations under way ends, what the component
\* displays is what this invocation produced: after a success its list, the
\* stats of its list and no error; after a failure its error message.
C17_LastWriteWins ==
    [][(PollEnds /\ OfMounted /\ AllCompleted) =>
         IF outcome'.type = "ok"
         THEN /\ \E data \in Snapshots : aircraft' = LimitData(data)
              /\ stats' = CalcStats(aircraft')
              /\ error' = Null
         ELSE error' = ErrorMessage(outcome')]_vars

----------------------------------------------------------------------------
(* The coordinate mapper *)

\* the reference points less than the exact-match distance away from (lat, lon)
Near(points, lat, lon) ==
    {i \in 1..Len(points) :
        LET latDiff == Abs(lat - points[i].lat)
            lonDiff == Abs(lon - points[i].lon)
        IN /\ latDiff < ExactMatchDistance
           /\ lonDiff < ExactMatchDistance
           /\ latDiff * latDiff + lonDiff * lonDiff
                < ExactMatchDistance * ExactMatchDistance}

\* every reference point is farther than the exact-match distance from (lat, lon)
Far(points, lat, lon) ==
    \A i \in 1..Len(points) :
        QLess(Q(ExactMatchDistance * ExactMatchDistance), Distance2(points[i], lat, lon))

Returned == mapCall.pc = "returned"

\* C18: latLonToPixel at the latitude and longitude of a configured reference
\* point returns the pixel of this point; a query less than 0.0001 degrees away
\* from a reference point returns the pixel of the first such point of the
\* table, as it stands in the table.
C18_ExactMatchFirst ==
    /\ \A i \in 1..Len(ADSB_PHILADELPHIA_REFERENCE_POINTS) :
          LET p == ADSB_PHILADELPHIA_REFERENCE_POINTS[i]
          IN latLonToPixel(p.lat, p.lon) = [x |-> Q(p.x), y |-> Q(p.y)]
    /\ (Returned /\ Near(mapCall.points, mapCall.lat, mapCall.lon) # {}) =>
          LET near == Near(mapCall.points, mapCall.lat, mapCall.lon)
              first == CHOOSE i \in near : \A j \in near : i <= j
          IN /\ mapCall.x = Q(mapCall.points[first].x)
             /\ mapCall.y = Q(mapCall.points[first].y)

\* a query less than the exact-match distance away from two reference points,
\* on neither of them, has returned the pixel of the first
C18_Witness ==
    /\ Returned
    /\ Cardinality(Near(mapCall.points, mapCall.lat, mapCall.lon)) >= 2
    /\ \A i \in 1..Len(mapCall.points) :
          mapCall.lat # mapCall.points[i].lat \/ mapCall.lon # mapCall.points[i].lon
    /\ mapCall.x = Q(mapCall.points[1].x)
    /\ mapCall.y = Q(mapCall.points[1].y)

\* the product of the squared distances from (lat, lon) to the points j, j + 1, ...
\* of the table, the point i left out
RECURSIVE ProductOfOthers(_, _, _, _, _)
ProductOfOthers(points, lat, lon, i, j) ==
    IF j > Len(points) THEN Q(1)
    ELSE QMul(IF j = i THEN Q(1) ELSE Distance2(points[j], lat, lon),
              ProductOfOthers(points, lat, lon, i, j + 1))

\* the sum over the points i, i + 1, ... of the field f of the point (1 for
\* f = "one") times the product of the squared distances to the other points
RECURSIVE SumOfProducts(_, _, _, _, _)
SumOfProducts(points, lat, lon, f, i) ==
    IF i > Len(points) THEN Q(0)
    ELSE QAdd(QMul(IF f = "one" THEN Q(1) ELSE Q(points[i][f]),
                   ProductOfOthers(points, lat, lon, i, 1)),
              SumOfProducts(points, lat, lon, f, i + 1))

\* the average of the field f of the points, weighted by 1 / distance^2
WeightedAverage(points, lat, lon, f) ==
    QDiv(SumOfProducts(points, lat, lon, f, 1), SumOfProducts(points, lat, lon, "one", 1))

Between(lo, v, hi) == QLeq(Q(lo), v) /\ QLeq(v, Q(hi))

\* C19: for a query inside the bounding box of the reference points and
\* farther than 0.0001 degrees from each of them, latLonToPixel returns the
\* average of the reference pixels weighted by the inverse squared distance;
\* each coordinate lies between the least and the greatest of the reference
\* points; on the calibration A, B, C the query (0.5, 0) gets an x strictly
\* between 0 and 100.
C19_WeightedInside ==
    (/\ Returned
     /\ ~OutsideBox(mapCall.points, mapCall.lat, mapCall.lon)
     /\ Far(mapCall.points, mapCall.lat, mapCall.lon)) =>
        /\ QEq(mapCall.x, WeightedAverage(mapCall.points, mapCall.lat, mapCall.lon, "x"))
        /\ QEq(mapCall.y, WeightedAverage(mapCall.points, mapCall.lat, mapCall.lon, "y"))
        /\ Between(MinOf(mapCall.points, "x"), mapCall.x, MaxOf(mapCall.points, "x"))
        /\ Between(MinOf(mapCall.points, "y"), mapCall.y, MaxOf(mapCall.points, "y"))
        /\ (mapCall.points = UnitTriangle /\ mapCall.lat = 50000 /\ mapCall.lon = 0) =>
              QLess(Q(0), mapCall.x) /\ QLess(mapCall.x, Q(10000))

\* the query (0.5, 0) on the calibration A, B, C has returned
C19_Witness ==
    /\ Returned
    /\ mapCall.points = UnitTriangle
    /\ mapCall.lat = 50000
    /\ mapCall.lon = 0
    /\ QLess(Q(0), mapCall.x)
    /\ QLess(mapCall.x, Q(10000))

\* the query is outside the bounding box and no reference point is less than
\* the exact-match distance away
InFallback(points, lat, lon) == OutsideBox(points, lat, lon) /\ Near(points, lat, lon) = {}

\* C20: for a query outside the bounding box of the reference points and not
\* within 0.0001 degrees of one of them, x = minX + lonNorm * (maxX - minX) and
\* y = minY + (1 - latNorm) * (maxY - minY); among such queries x does not
\* decrease when the longitude grows and y does not increase when the latitude
\* grows.
C20_LinearOutside ==
    (Returned /\ InFallback(mapCall.points, mapCall.lat, mapCall.lon)) =>
        LET points == mapCall.points
            minLat == MinOf(points, "lat")
            maxLat == MaxOf(points, "lat")
            minLon == MinOf(points, "lon")
            maxLon == MaxOf(points, "lon")
            minX == MinOf(points, "x")
            maxX == MaxOf(points, "x")
            minY == MinOf(points, "y")
            maxY == MaxOf(points, "y")
        IN /\ QEq(mapCall.x,
                  QAdd(Q(minX), QDiv(QMul(Q(mapCall.lon - minLon), Q(maxX - minX)),
                                     Q(maxLon - minLon))))
           /\ QEq(mapCall.y,
                  QAdd(Q(minY), QDiv(QMul(Q(maxLat - mapCall.lat), Q(maxY - minY)),
                                     Q(maxLat - minLat))))
           /\ \A q \in Queries(points) :
                 InFallback(points, q.lat, q.lon) =>
                    LET other == latLonToPixelOver(points, q.lat, q.lon)
                    IN /\ q.lon >= mapCall.lon => QLeq(mapCall.x, other.x)
                       /\ q.lat >= mapCall.lat => QLeq(other.y, mapCall.y)

\* a query north of the configured reference points has got a y above the
\* topmost reference pixel
C20_Witness ==
    /\ Returned
    /\ mapCall.points = ADSB_PHILADELPHIA_REFERENCE_POINTS
    /\ mapCall.lat > MaxOf(mapCall.points, "lat")
    /\ Near(mapCall.points, mapCall.lat, mapCall.lon) = {}
    /\ QLess(mapCall.y, Q(MinOf(mapCall.points, "y")))

----------------------------------------------------------------------------
(* The trail store and the interpolation map in every reachable state *)

\* the timestamps of a sequence of positions do not decrease
Chronological(positions) ==
    \A i \in 1..Len(positions) : \A j \in i..Len(positions) :
        positions[i].timestamp <= positions[j].timestamp

C29_TrailsNonEmpty ==
    \A hex \in DOMAIN aircraftTrails : Len(PositionsOf(hex)) >= 1

\* the cleanup loop has read the last position of the trails of objects the
\* response did not list, one of them a trail that had been truncated to
\* its maximum length, and has kept it
C29_Witness ==
    /\ \E hex \in DOMAIN aircraftTrails :
          /\ hex \notin trailEvents.active
          /\ Len(PositionsOf(hex)) = TRAIL_LENGTH
    /\ outcome.type = "ok"
    /\ trailEvents.recorded # {}

\* an entry of the interpolation map without the two fields a frame may write
Target(ac) ==
    [hex |-> ac.hex, lat |-> ac.lat, lon |-> ac.lon, alt_baro |-> ac.alt_baro,
     emergency |-> ac.emergency, category |-> ac.category,
     interpolationStartTime |-> ac.interpolationStartTime]

FirstN(list, n) == [i \in 1..Min(Len(list), n) |-> list[i]]

\* C26: after a successful poll the displayed list is the first maxAircraft
\* elements of the filtered response, in the order of the response, and its
\* stats count at most maxAircraft aircraft and, in every category, at most as
\* many as there are aircraft.
C26_CappedPrefix ==
    [][PollApplied =>
         /\ \E data \in Snapshots :
               /\ HexesOf(data) = trailEvents'.active
               /\ Positioned(data) = trailEvents'.recorded
               /\ \A i \in Reported(data) :
                     LET positions == StoreTrails'[data[i].hex].positions
                         last == positions[Len(positions)]
                     IN last.lat = data[i].lat /\ last.lon = data[i].lon
               /\ aircraft' = FirstN(FilterData(data), maxAircraft)
         /\ stats'.totalAircraft = Len(aircraft')
         /\ stats'.totalAircraft <= maxAircraft
         /\ stats'.withPosition <= stats'.totalAircraft
         /\ stats'.emergency <= stats'.totalAircraft
         /\ stats'.military <= stats'.totalAircraft
         /\ stats'.commercial <= stats'.totalAircraft
         /\ stats'.helicopters <= stats'.totalAircraft]_vars

\* the list on display was cut to maxAircraft elements
C26_Witness ==
    /\ outcome.type = "ok"
    /\ outcome.mounted
    /\ Len(aircraft) = maxAircraft
    /\ Cardinality(trailEvents.active) > maxAircraft
    /\ stats.totalAircraft = maxAircraft
    /\ stats.withPosition = maxAircraft

\* C27: an animation frame leaves at 1 the interpolationProgress of an entry
\* that has it at 1, whether the entry was just written for a new aircraft or
\* its animation was completed by an earlier frame.
C27_CompleteStaysComplete ==
    [][FrameStep =>
         \A hex \in DOMAIN interpolatedAircraft :
            interpolatedAircraft[hex].interpolationProgress = FracOne =>
               /\ hex \in DOMAIN interpolatedAircraft'
               /\ interpolatedAircraft'[hex].interpolationProgress = FracOne]_vars

----------------------------------------------------------------------------
(* A frame of animate on its own: the entry a poll wrote at start, and the
   Date.now() the frame reads, which the system clock may have been set back
   to before start *)

\* the aircraft with a position that the responses hold
PositionedAircraft == UNION {{data[i] : i \in Reported(data)} : data \in Snapshots}

\* the entries the updater of fetchAircraft writes at Date.now() = start
PollEntries(start) ==
    {NewEntry(ac, start) : ac \in PositionedAircraft}
    \cup {UpdatedEntry(pair[1], NewEntry(pair[2], start), start) :
            pair \in {p \in PositionedAircraft \X PositionedAircraft : p[1].hex = p[2].hex}}

\* what the frame reads from Date.now(), relative to the start of the entry
FrameOffsets ==
    {-16, -1, 0, 1, 16, TimeStep, interpolationDuration, interpolationDuration + TimeStep}

FrameInit ==
    /\ InitTracker
    /\ AdsbOnDisplay
    /\ \E entry \in PollEntries(Epoch), offset \in FrameOffsets :
          mapCall = [pc |-> "frame", entry |-> entry, t |-> Epoch + offset]

\* the body of the for loop of animate runs on the entry
Frame ==
    /\ mapCall.pc = "frame"
    /\ mapCall' = [pc |-> "framed", entry |-> AnimateEntry(mapCall.entry, mapCall.t),
                   t |-> mapCall.t]
    /\ UNCHANGED <<trackerVars, shellVars>>

FrameNext == Frame

FrameSpec == FrameInit /\ [][FrameNext]_vars

\* 0 <= progress <= 1
InUnitInterval(progress) == 0 <= progress[1] /\ progress[1] <= progress[2]

\* C24: the interpolationProgress of every entry of the interpolation map,
\* and of every entry a frame of animate writes, is in [0, 1], also when the
\* frame reads a Date.now() that is earlier than or equal to the
\* interpolationStartTime of the entry.
C24_ProgressInUnitInterval ==
    /\ \A hex \in DOMAIN interpolatedAircraft :
          InUnitInterval(interpolatedAircraft[hex].interpolationProgress)
    /\ mapCall.pc = "framed" => InUnitInterval(mapCall.entry.interpolationProgress)

----------------------------------------------------------------------------
(* The altitude filter of fetchAircraft on its own: the props minAltitude and
   maxAltitude of the component and the list a response holds *)

\* a prop that is undefined, and a prop that is a number of feet
Undefined == [set |-> FALSE, value |-> 0]
Feet(n) == [set |-> TRUE, value |-> n]

\* the values of the props; 0 is a number, not undefined
AltitudeProps == {Undefined, Feet(0), Feet(1200), Feet(35000)}

\* alt_baro of the aircraft of a response: 'ground' or absent, or a number
Altitudes == {<< >>, <<-100>>, <<0>>, <<1200>>, <<1201>>, <<35000>>}

MaxListed == 2

ListedHexes == <<"AE01", "4b1a", "43c1">>

AtAltitude(hex, alt_baro) == [Ac(hex, 1, 1) EXCEPT !.alt_baro = alt_baro]

\* the lists of at most MaxListed aircraft, no hex twice
AltitudeLists ==
    UNION {{[i \in 1..n |-> AtAltitude(ListedHexes[i], alts[i])] :
              alts \in [1..n -> Altitudes]} : n \in 0..MaxListed}

FilterInit ==
    /\ InitTracker
    /\ AdsbOnDisplay
    /\ \E min \in AltitudeProps, max \in AltitudeProps, data \in AltitudeLists :
          mapCall = [pc |-> "filter", min |-> min, max |-> max, data |-> data]

\* lines 263-271 of fetchAircraft run on the list
Filter ==
    /\ mapCall.pc = "filter"
    /\ mapCall' = [pc |-> "filtered", min |-> mapCall.min, max |-> mapCall.max,
                   data |-> mapCall.data,
                   filteredData |-> FilterDataWith(mapCall.min, mapCall.max, mapCall.data)]
    /\ UNCHANGED <<trackerVars, shellVars>>

FilterNext == Filter

FilterSpec == FilterInit /\ [][FilterNext]_vars

\* min <= alt <= max, for the bounds that are set
WithinBounds(min, max, alt) ==
    /\ min.set => min.value <= alt
    /\ max.set => alt <= max.value

\* the aircraft of list whose altitude is not a number or is within the bounds,
\* in the order of list
RECURSIVE Kept(_, _, _)
Kept(list, min, max) ==
    IF list = << >> THEN << >>
    ELSE LET ac == Head(list)
         IN (IF Len(ac.alt_baro) = 1 => WithinBounds(min, max, ac.alt_baro[1])
             THEN <<ac>> ELSE << >>) \o Kept(Tail(list), min, max)

\* C25: with minAltitude or maxAltitude set, the filter keeps exactly the
\* aircraft whose alt_baro is not a number, or is a number within the bounds
\* that are set (bounds included), in the order of the response; with neither
\* set the list passes unchanged.
C25_AltitudeFilter ==
    mapCall.pc = "filtered" =>
        IF mapCall.min.set \/ mapCall.max.set
        THEN mapCall.filteredData = Kept(mapCall.data, mapCall.min, mapCall.max)
        ELSE mapCall.filteredData = mapCall.data

\* both bounds are set; of the two aircraft of the list the first, at the
\* lower bound, is kept and the second, above the upper bound, is dropped
C25_Witness ==
    /\ mapCall.pc = "filtered"
    /\ mapCall.min = Feet(1200) /\ mapCall.max = Feet(1200)
    /\ Len(mapCall.data) = 2
    /\ mapCall.data[1].alt_baro = <<1200>> /\ mapCall.data[2].alt_baro = <<1201>>
    /\ mapCall.filteredData = <<mapCall.data[1]>>

----------------------------------------------------------------------------
(* The app shell and the theme manager, for every configuration of the display
   and every theme localStorage may hold *)

ShellInit ==
    /\ InitTracker
    /\ mapCall = NoCall
    /\ \E display \in Configs, savedTheme \in SavedThemes : Loads(display, savedTheme)

ShellNext ==
    \/ KeyX
    \/ KeyZ
    \/ CycleTimer
    \/ KeyNextTheme
    \/ KeyPreviousTheme
    \/ \E themeName \in AppliedNames : ApplyTheme(themeName)

ShellSpec == ShellInit /\ [][ShellNext]_vars

\* the index of the app after and before the app of index i, in the order of
\* the apps that are not the welcome app, wrapping
Following(i) == IF i = Len(apps) - 1 THEN 1 ELSE i + 1
Preceding(i) == IF i = 1 THEN Len(apps) - 1 ELSE i - 1

\* C21: with cycling enabled and the welcome app skipped, an X press shows the
\* app that follows the app on display in the cycling order, and a Z press the
\* app that precedes it, wrapping, whatever key presses and timer firings came
\* before.
C21_KeysFollowCyclingOrder ==
    SkipWelcome =>
        /\ lastEvent.type = "x" => currentAppIndex = Following(lastEvent.index)
        /\ lastEvent.type = "z" => currentAppIndex = Preceding(lastEvent.index)

\* C30: with cycling enabled and the welcome app skipped, currentAppIndex is an
\* index of apps and never the index of the welcome app, after any timer
\* firings and X and Z presses.
C30_NeverWelcome ==
    SkipWelcome =>
        /\ currentAppIndex \in 0..(Len(apps) - 1)
        /\ At(apps, currentAppIndex) # "welcome"

\* the timer fired while the last app of the list was on display, and the
\* display wrapped to the app after the welcome app
C30_Witness ==
    /\ SkipWelcome
    /\ lastEvent.type = "timer"
    /\ lastEvent.index = Len(apps) - 1
    /\ currentAppIndex = 1

IsTheme(name) == \E i \in 1..Len(ThemeNames) : ThemeNames[i] = name

\* C22: the current theme is a key of CRT_THEMES; nextTheme and previousTheme
\* move to the next and the previous key, undo each other and wrap at the ends;
\* applyTheme with a name that is no key of CRT_THEMES returns false and leaves
\* the current theme and the stored theme as they were.
C22_ThemeSwitching ==
    Loaded =>
        /\ IsTheme(currentTheme)
        /\ PreviousThemeName(NextThemeName(currentTheme)) = currentTheme
        /\ NextThemeName(PreviousThemeName(currentTheme)) = currentTheme
        /\ NextThemeName(ThemeNames[Len(ThemeNames)]) = ThemeNames[1]
        /\ PreviousThemeName(ThemeNames[1]) = ThemeNames[Len(ThemeNames)]
        /\ lastEvent.type = "]" =>
             currentTheme = At(ThemeNames, (FindIndex(ThemeNames, lastEvent.theme) + 1)
                                              % Len(ThemeNames))
        /\ lastEvent.type = "[" =>
             lastEvent.theme = At(ThemeNames, (FindIndex(ThemeNames, currentTheme) + 1)
                                                 % Len(ThemeNames))
        /\ lastEvent.type = "applyTheme" /\ IsTheme(lastEvent.arg) =>
             currentTheme = lastEvent.arg
        /\ lastEvent.type = "applyTheme" /\ ~IsTheme(lastEvent.arg) =>
             /\ lastEvent.result = "false"
             /\ currentTheme = lastEvent.theme
             /\ localStorage = lastEvent.stored

====
